---- MODULE Spec2Model ----
(***************************************************************************)
(* A model of the jsonic JSON decoder: the cursor-owning Parser of         *)
(* src/src/lib.rs and the JsonElement accessors of                         *)
(* src/src/json_element.rs.                                                *)
(*                                                                         *)
(* The parser is a recursive-descent scanner.  Its call stack is the       *)
(* variable `stack` (last frame = running function); every action is one   *)
(* iteration of the `while self.index < self.length` loop of the function  *)
(* on top of the stack, together with everything that iteration does: a    *)
(* call that returns hands its value to the caller's continuation in the   *)
(* same step, and `?` unwinds the whole stack.                             *)
(*                                                                         *)
(* Bytes are one-character strings, a text is a sequence of bytes, and the *)
(* cursor `index` is 0-based as in the code (byte i is source[i + 1]).     *)
(* Option<T> is a sequence of length 0 (None) or 1 (Some).                 *)
(*                                                                         *)
(* f64 values are kept symbolically (the operands of the expression that   *)
(* computes them); rounding is not modelled.  An i128 is a sign and a      *)
(* magnitude in decimal digits, so that its whole range is there.  What an *)
(* overflowing `+` or `neg()` does depends on the build: the variable      *)
(* overflow_checks is true for a build that panics on it (debug) and false *)
(* for one that wraps (release).                                           *)
(*                                                                         *)
(* A caller may parse a second text with a new Parser; `previous` is then  *)
(* the result of its first parse (None before).                            *)
(***************************************************************************)
EXTENDS Integers, Sequences, FiniteSets, TLC

VARIABLES source, index, stack, result, cur, call, overflow_checks, previous

vars ==
    <<source, index, stack, result, cur, call, overflow_checks, previous>>

(***************************************************************************)
(* Bytes                                                                   *)
(***************************************************************************)
QUOTE == "\""

BACKSLASH == "\\"

TAB == "\t"

LF == "\n"

CR == "\r"

Digits == {"0", "1", "2", "3", "4", "5", "6", "7", "8", "9"}

\* (b - b'0') for an ASCII digit b
DigitVal(b) ==
    CASE b = "0" -> 0 [] b = "1" -> 1 [] b = "2" -> 2 [] b = "3" -> 3
      [] b = "4" -> 4 [] b = "5" -> 5 [] b = "6" -> 6 [] b = "7" -> 7
      [] b = "8" -> 8 [] b = "9" -> 9

None == <<>>

Some(x) == <<x>>

(***************************************************************************)
(* i128: [neg, mag], mag the decimal digits of the magnitude, most         *)
(* significant first and without leading zeros (<<>> is 0); zero is never  *)
(* negative.                                                               *)
(***************************************************************************)
I128(neg, mag) == [neg |-> neg /\ mag # <<>>, mag |-> mag]

I128_ZERO == I128(FALSE, <<>>)

\* i128::MAX = 2^127 - 1 = 170141183460469231731687303715884105727
I128_MAX_MAG ==
    <<1, 7, 0, 1, 4, 1, 1, 8, 3, 4, 6, 0, 4, 6, 9, 2, 3, 1, 7, 3, 1, 6, 8, 7,
      3, 0, 3, 7, 1, 5, 8, 8, 4, 1, 0, 5, 7, 2, 7>>

\* the magnitude of i128::MIN = -2^127
I128_MIN_MAG == [I128_MAX_MAG EXCEPT ![Len(I128_MAX_MAG)] = 8]

I128_MAX == I128(FALSE, I128_MAX_MAG)

I128_MIN == I128(TRUE, I128_MIN_MAG)

\* a < b, for magnitudes
MagLess(a, b) ==
    \/ Len(a) < Len(b)
    \/ /\ Len(a) = Len(b)
       /\ \E i \in 1..Len(a) :
             a[i] < b[i] /\ \A j \in 1..(i - 1) : a[j] = b[j]

\* whether a mathematical value is an i128
InI128(v) ==
    IF v.neg THEN ~MagLess(I128_MIN_MAG, v.mag)
    ELSE ~MagLess(I128_MAX_MAG, v.mag)

\* mag * 10
MagTimes10(mag) == IF mag = <<>> THEN <<>> ELSE Append(mag, 0)

\* mag + d, d one digit
RECURSIVE MagPlus(_, _)
MagPlus(mag, d) ==
    IF d = 0 THEN mag
    ELSE IF mag = <<>> THEN <<d>>
    ELSE LET n == Len(mag)
             sum == mag[n] + d
         IN  IF sum < 10 THEN [mag EXCEPT ![n] = sum]
             ELSE Append(MagPlus(SubSeq(mag, 1, n - 1), 1), sum - 10)

\* num.overflowing_mul(10_i128): the product and whether it overflowed; the
\* caller drops the product when it did
overflowing_mul_10(num) ==
    LET product == I128(num.neg, MagTimes10(num.mag))
    IN  [result |-> product, overflow |-> ~InI128(product)]

\* mag - 1, mag > 0
RECURSIVE MagMinus1(_)
MagMinus1(mag) ==
    LET n == Len(mag)
    IN  IF mag[n] > 0
        THEN IF n = 1 /\ mag[n] = 1 THEN <<>> ELSE [mag EXCEPT ![n] = @ - 1]
        ELSE Append(MagMinus1(SubSeq(mag, 1, n - 1)), 9)

\* mag - k
RECURSIVE MagMinus(_, _)
MagMinus(mag, k) == IF k = 0 THEN mag ELSE MagMinus(MagMinus1(mag), k - 1)

\* a - b, for a >= b
RECURSIVE MagDistance(_, _)
MagDistance(a, b) == IF a = b THEN 0 ELSE 1 + MagDistance(MagMinus1(a), b)

\* result + (b - b'0') as i128, for a product result >= 0: the value the
\* addition leaves and whether it overflowed.  A sum past i128::MAX wraps by 2^128:
\* 2^127 + k becomes -(2^127 - k).
add_digit(product, d) ==
    LET sum == MagPlus(product.mag, d)
    IN  IF MagLess(I128_MAX_MAG, sum)
        THEN [value |-> I128(TRUE,
                             MagMinus(I128_MIN_MAG,
                                      MagDistance(sum, I128_MIN_MAG))),
              overflow |-> TRUE]
        ELSE [value |-> I128(FALSE, sum), overflow |-> FALSE]

\* num.neg(): -i128::MIN does not exist, the wrapped result is i128::MIN
i128_neg(num) ==
    IF num = I128_MIN THEN [value |-> I128_MIN, overflow |-> TRUE]
    ELSE [value |-> I128(~num.neg, num.mag), overflow |-> FALSE]

(***************************************************************************)
(* The value tree (json_element.rs; lib.rs builds it through the same      *)
(* constructors).                                                          *)
(***************************************************************************)
Slice(beginning, end) == [beginning |-> beginning, end |-> end]

JsonElement(json_type, slice, boolean, number, object, array) ==
    [json_type |-> json_type, slice |-> slice, boolean |-> boolean,
     number |-> number, object |-> object, array |-> array]

from_type_slice(json_type, slice) ==
    JsonElement(json_type, slice, None, None, None, None)

from_null(slice) == from_type_slice("JsonNull", slice)

from_boolean(boolean, slice) ==
    JsonElement("JsonBoolean", slice, Some(boolean), None, None, None)

from_string(slice) == from_type_slice("JsonString", slice)

from_number(number, slice) ==
    JsonElement("JsonNumber", slice, None, Some(number), None, None)

from_object(object, slice) ==
    JsonElement("JsonObject", slice, None, None, Some(object), None)

from_array(array, slice) ==
    JsonElement("JsonArray", slice, None, None, None, Some(array))

\* JsonElement::empty(), the value of the static EMPTY_ELEMENT
EMPTY_ELEMENT == from_type_slice("JsonEmpty", Slice(0, 0))

\* The map of an Object: a function from key texts to elements.
EmptyMap == [k \in {} |-> EMPTY_ELEMENT]

\* map.insert(key, value): a later entry replaces an earlier one of the same key
MapInsert(map, key, value) == (key :> value) @@ map

(***************************************************************************)
(* Parser: reading the buffer                                              *)
(***************************************************************************)
length == Len(source)

\* the bytes of a slice, as extract_str reads them
extract_str(slice) == SubSeq(source, slice.beginning + 1, slice.end)

read_at(i) == source[i + 1]

\* `while self.index < self.length` guards every read_byte
InBounds(i) == i >= 0 /\ i < length

(***************************************************************************)
(* Outcomes of a step: the new stack, cursor and result of parse().        *)
(***************************************************************************)
Running == [kind |-> "Running", index |-> 0, elem |-> EMPTY_ELEMENT]

Ok(elem) == [kind |-> "Ok", index |-> 0, elem |-> elem]

JsonError(i) == [kind |-> "Err", index |-> i, elem |-> EMPTY_ELEMENT]

\* a panic: an index outside EXP_MATRIX (the bounds check of the indexing),
\* or an arithmetic overflow in a build with overflow checks
Panic(i) == [kind |-> "Panic", index |-> i, elem |-> EMPTY_ELEMENT]

Go(stk, idx) == [stack |-> stk, index |-> idx, result |-> Running]

\* Err(JsonError::new(i)); every caller propagates it with `?`
Fail(idx, i) == [stack |-> <<>>, index |-> idx, result |-> JsonError(i)]

Abort(idx) == [stack |-> <<>>, index |-> idx, result |-> Panic(idx)]

Top(stk) == stk[Len(stk)]

Pop(stk) == SubSeq(stk, 1, Len(stk) - 1)

SetTop(stk, f) == [stk EXCEPT ![Len(stk)] = f]

(***************************************************************************)
(* Stack frames: the locals of each running function.                      *)
(***************************************************************************)
ParseFrame == [fn |-> "parse"]

ObjectFrame(mark) ==
    [fn |-> "parse_object", mark |-> mark, object |-> EmptyMap, key |-> None]

ArrayFrame(mark) == [fn |-> "parse_array", mark |-> mark, array |-> <<>>]

StringFrame(mark) == [fn |-> "parse_string", mark |-> mark]

\* dot_multiplier is None for 0.0 and Some(k) for EXP_MATRIX[1][k]; pc is the
\* call parse_number is waiting for ("loop": none, it runs its own loop)
NumberFrame(mark, neg) ==
    [fn |-> "parse_number", mark |-> mark, neg |-> neg,
     before_dot |-> I128_ZERO, after_dot |-> I128_ZERO,
     dot_multiplier |-> None, dot_mark |-> 0, pc |-> "before_dot"]

DigitsFrame == [fn |-> "parse_digits", num |-> I128_ZERO]

ExponentFrame == [fn |-> "parse_exponent", number |-> 0, shift |-> 0]

(***************************************************************************)
(* Returning a value to the caller (the frame on top of stk).              *)
(***************************************************************************)
\* ReturnToParse with parse asking that the root ends the input
ReturnToParse_whole_input(stk, idx, elem) ==
    IF idx = length
    THEN [stack |-> <<>>, index |-> idx, result |-> Ok(elem)]
    ELSE Fail(idx, idx)

\* parse: return Ok(self.parse_object()?) / Ok(self.parse_array()?)
ReturnToParse(stk, idx, elem) ==
    [stack |-> <<>>, index |-> idx, result |-> Ok(elem)]

\* parse_array: array.vec.push(...); continue
ReturnToArray(stk, idx, elem) ==
    Go(SetTop(stk, [Top(stk) EXCEPT !.array = Append(@, elem)]), idx)

\* parse_object, key = None: the string is the key; the match arm does not
\* `continue`, so the increment_index() that ends the loop body runs too
ReturnKey(stk, idx, elem) ==
    Go(SetTop(stk, [Top(stk) EXCEPT !.key = Some(extract_str(elem.slice))]),
       idx + 1)

\* parse_object, key = Some: object.map.insert(key.unwrap(), ...); key = None;
\* continue
ReturnToObject(stk, idx, elem) ==
    Go(SetTop(stk, [Top(stk) EXCEPT
                      !.object = MapInsert(@, Top(stk).key[1], elem),
                      !.key = None]),
       idx)

Return(stk, idx, elem) ==
    CASE Top(stk).fn = "parse" -> ReturnToParse(stk, idx, elem)
      [] Top(stk).fn = "parse_array" -> ReturnToArray(stk, idx, elem)
      [] Top(stk).fn = "parse_object" /\ Top(stk).key = None ->
            ReturnKey(stk, idx, elem)
      [] Top(stk).fn = "parse_object" /\ Top(stk).key # None ->
            ReturnToObject(stk, idx, elem)

(***************************************************************************)
(* The literals.  next_3_bytes / next_4_bytes pack the bytes into one u64, *)
(* most significant first; the packing is injective, so comparing packed   *)
(* words is comparing the byte tuples.                                     *)
(***************************************************************************)
next_3_bytes(i) == <<read_at(i), read_at(i + 1), read_at(i + 2)>>

next_4_bytes(i) ==
    <<read_at(i), read_at(i + 1), read_at(i + 2), read_at(i + 3)>>

\* called with the cursor idx on the leading 'n'
parse_null(stk, idx) ==
    LET mark == idx
        i == idx + 1
    IN  IF i + 2 < length
        THEN IF next_3_bytes(i) = <<"u", "l", "l">>
             THEN Return(stk, i + 3, from_null(Slice(mark, i + 3)))
             ELSE Fail(i, i)
        ELSE Fail(i, i)

parse_true(stk, idx) ==
    LET mark == idx
        i == idx + 1
    IN  IF i + 2 < length
        THEN IF next_3_bytes(i) = <<"r", "u", "e">>
             THEN Return(stk, i + 3, from_boolean(TRUE, Slice(mark, i + 3)))
             ELSE Fail(i, i)
        ELSE Fail(i, i)

\* parse_false asking for one byte more than the tail has
parse_false_short_tail(stk, idx) ==
    LET mark == idx
        i == idx + 1
    IN  IF i + 4 < length
        THEN IF next_4_bytes(i) = <<"a", "l", "s", "e">>
             THEN Return(stk, i + 4, from_boolean(FALSE, Slice(mark, i + 4)))
             ELSE Fail(i, i)
        ELSE Fail(i, i)

parse_false(stk, idx) ==
    LET mark == idx
        i == idx + 1
    IN  IF i + 3 < length
        THEN IF next_4_bytes(i) = <<"a", "l", "s", "e">>
             THEN Return(stk, i + 4, from_boolean(FALSE, Slice(mark, i + 4)))
             ELSE Fail(i, i)
        ELSE Fail(i, i)

(***************************************************************************)
(* Calls: the callee's prologue, up to its first loop test.                *)
(***************************************************************************)
\* parse_string: increment_index(); mark = index
call_string(stk, idx) == Go(Append(stk, StringFrame(idx + 1)), idx + 1)

\* parse_array: mark = index; increment_index(); array = Array::new()
call_array(stk, idx) == Go(Append(stk, ArrayFrame(idx)), idx + 1)

\* parse_object: mark = index; increment_index(); object = Object::new()
call_object(stk, idx) == Go(Append(stk, ObjectFrame(idx)), idx + 1)

\* parse_number: mark = index; the sign; then the call of parse_digits
call_number(stk, idx) ==
    LET neg == read_at(idx) = "-"
    IN  Go(Append(Append(stk, NumberFrame(idx, neg)), DigitsFrame),
           IF neg THEN idx + 1 ELSE idx)

\* The arms of parse_array and of parse_object (key = Some) that start a
\* value; the two functions spell out the same arms.
StartsValue(b) == b \in {"n", "t", "f", "-", QUOTE, "{", "["} \cup Digits

call_value(stk, idx) ==
    LET b == read_at(idx)
    IN  CASE b = "n" -> parse_null(stk, idx)
          [] b = "t" -> parse_true(stk, idx)
          [] b = "f" -> parse_false(stk, idx)
          [] b = "-" \/ b \in Digits -> call_number(stk, idx)
          [] b = QUOTE -> call_string(stk, idx)
          [] b = "{" -> call_object(stk, idx)
          [] b = "[" -> call_array(stk, idx)

(***************************************************************************)
(* One iteration of each loop.                                             *)
(***************************************************************************)
\* parse_loop with a top-level scalar dispatched like a container
parse_loop_any_value(stk, idx) ==
    IF idx < length
    THEN LET b == read_at(idx)
         IN  CASE b = " " -> Go(stk, idx + 1)
               [] StartsValue(b) -> call_value(stk, idx)
               [] OTHER -> Fail(idx, idx)
    ELSE Fail(idx, idx)

\* Parser::parse
parse_loop(stk, idx) ==
    IF idx < length
    THEN LET b == read_at(idx)
         IN  CASE b = " " -> Go(stk, idx + 1)
               [] b = "{" -> call_object(stk, idx)
               [] b = "[" -> call_array(stk, idx)
               [] OTHER -> Fail(idx, idx)
    ELSE Fail(idx, idx)

\* parse_array_loop with the span taken one byte past the closing bracket
parse_array_loop_past_bracket(stk, idx) ==
    IF idx < length
    THEN LET b == read_at(idx)
             f == Top(stk)
         IN  CASE b = " " \/ b = "," -> Go(stk, idx + 1)
               [] StartsValue(b) -> call_value(stk, idx)
               [] b = "]" ->
                    Return(Pop(stk), idx + 1,
                           from_array(f.array, Slice(f.mark, idx + 2)))
               [] OTHER -> Fail(idx, idx)
    ELSE Fail(idx, idx)

\* Parser::parse_array
parse_array_loop(stk, idx) ==
    IF idx < length
    THEN LET b == read_at(idx)
             f == Top(stk)
         IN  CASE b = " " \/ b = "," -> Go(stk, idx + 1)
               [] StartsValue(b) -> call_value(stk, idx)
               [] b = "]" ->
                    Return(Pop(stk), idx + 1,
                           from_array(f.array, Slice(f.mark, idx + 1)))
               [] OTHER -> Fail(idx, idx)
    ELSE Fail(idx, idx)

\* Parser::parse_object
parse_object_loop(stk, idx) ==
    IF idx < length
    THEN LET b == read_at(idx)
             f == Top(stk)
         IN  IF f.key = None
             THEN CASE b = " " \/ b = "," -> Go(stk, idx + 1)
                    [] b = QUOTE -> call_string(stk, idx)
                    [] b = "}" ->
                         Return(Pop(stk), idx + 1,
                                from_object(f.object, Slice(f.mark, idx + 1)))
                    [] OTHER -> Fail(idx, idx)
             ELSE CASE b = " " \/ b = ":" -> Go(stk, idx + 1)
                    [] StartsValue(b) -> call_value(stk, idx)
                    [] OTHER -> Fail(idx, idx)
    ELSE Fail(idx, idx)

\* parse_string_loop with the closing quote inside the span
parse_string_loop_with_quote(stk, idx) ==
    IF idx < length
    THEN IF read_at(idx) = QUOTE
         THEN Return(Pop(stk), idx + 1,
                     from_string(Slice(Top(stk).mark, idx + 1)))
         ELSE Go(stk, idx + 1)
    ELSE Fail(idx, idx)

\* Parser::parse_string
parse_string_loop(stk, idx) ==
    IF idx < length
    THEN IF read_at(idx) = QUOTE
         THEN Return(Pop(stk), idx + 1,
                     from_string(Slice(Top(stk).mark, idx + 1 - 1)))
         ELSE Go(stk, idx + 1)
    ELSE Fail(idx, idx)

(***************************************************************************)
(* Numbers.  EXP_MATRIX[shift][k] is 10^k (shift 0) or 10^-k (shift 1) for *)
(* k in 0..64; an entry is named here by its two indices.  A Number's      *)
(* num_f64 keeps the operands of                                           *)
(*   exponent * (before_dot as f64 + after_dot as f64 * dot_multiplier).   *)
(***************************************************************************)
EXP_MATRIX_COLUMNS == 65

InTable(k) == k >= 0 /\ k < EXP_MATRIX_COLUMNS

EXP_MATRIX(shift, k) == [shift |-> shift, number |-> k]

F64(exponent, before_dot, after_dot, dot_multiplier) ==
    [exponent |-> exponent, before_dot |-> before_dot,
     after_dot |-> after_dot, dot_multiplier |-> dot_multiplier]

Number(num_i128, num_f64, detected_type) ==
    [num_i128 |-> num_i128, num_f64 |-> num_f64,
     detected_type |-> detected_type]

\* finish_number without the `if neg` block
finish_number_unsigned(stk, idx, exponent) ==
    LET f == Top(stk)
        detected_type ==
            IF exponent # None THEN "Float"
            ELSE IF f.dot_multiplier # None THEN "Float" ELSE "Integer"
    IN  Return(Pop(stk), idx,
               from_number(Number(f.before_dot,
                                  F64(exponent, f.before_dot, f.after_dot,
                                      f.dot_multiplier),
                                  detected_type),
                           Slice(f.mark, idx)))

\* the two arms of parse_number that build the element; exponent is None in
\* the `_` arm and Some(EXP_MATRIX[shift][number]) in the 'e' | 'E' arm
finish_number(stk, idx, exponent) ==
    LET f == Top(stk)
        before_dot ==
            IF f.neg THEN i128_neg(f.before_dot).value ELSE f.before_dot
        after_dot ==
            IF f.neg THEN i128_neg(f.after_dot).value ELSE f.after_dot
        overflow ==
            /\ f.neg
            /\ \/ i128_neg(f.before_dot).overflow
               \/ i128_neg(f.after_dot).overflow
        detected_type ==
            IF exponent # None THEN "Float"
            ELSE IF f.dot_multiplier # None THEN "Float" ELSE "Integer"
    IN  IF overflow /\ overflow_checks
        THEN Abort(idx)
        ELSE Return(Pop(stk), idx,
                    from_number(Number(before_dot,
                                       F64(exponent, before_dot, after_dot,
                                           f.dot_multiplier),
                                       detected_type),
                                Slice(f.mark, idx)))

\* Parser::parse_number, the loop after the integer digits
parse_number_loop(stk, idx) ==
    IF idx < length
    THEN LET b == read_at(idx)
             f == Top(stk)
         IN  CASE b = "." ->
                    Go(Append(SetTop(stk, [f EXCEPT !.dot_mark = idx + 1,
                                                    !.pc = "after_dot"]),
                              DigitsFrame),
                       idx + 1)
               [] b = "e" \/ b = "E" ->
                    Go(Append(SetTop(stk, [f EXCEPT !.pc = "exponent"]),
                              ExponentFrame),
                       idx + 1)
               [] OTHER -> finish_number(stk, idx, None)
    ELSE Fail(idx, idx)

\* parse_digits returns Ok(num) to parse_number (stk has its frame on top)
digits_return(stk, idx, num) ==
    LET f == Top(stk)
    IN  IF f.pc = "before_dot"
        THEN Go(SetTop(stk, [f EXCEPT !.before_dot = num, !.pc = "loop"]), idx)
        ELSE IF InTable(idx - f.dot_mark)
             THEN Go(SetTop(stk, [f EXCEPT
                                    !.after_dot = num,
                                    !.dot_multiplier = Some(idx - f.dot_mark),
                                    !.pc = "loop"]),
                     idx)
             ELSE Abort(idx)

\* Parser::parse_digits.  When the multiplication overflows the digit is
\* dropped (println!("yo")) and the scan goes on; the addition is a plain `+`.
parse_digits_loop(stk, idx) ==
    IF idx < length
    THEN LET b == read_at(idx)
             f == Top(stk)
             product == overflowing_mul_10(f.num)
             sum == add_digit(product.result, DigitVal(b))
         IN  IF b \in Digits
             THEN IF product.overflow THEN Go(stk, idx + 1)
                  ELSE IF sum.overflow /\ overflow_checks THEN Abort(idx)
                  ELSE Go(SetTop(stk, [f EXCEPT !.num = sum.value]), idx + 1)
             ELSE digits_return(Pop(stk), idx, f.num)
    ELSE Fail(idx, idx)

\* Parser::parse_exponent
parse_exponent_loop(stk, idx) ==
    IF idx < length
    THEN LET b == read_at(idx)
             f == Top(stk)
         IN  CASE b = "-" -> Go(SetTop(stk, [f EXCEPT !.shift = 1]), idx + 1)
               [] b \in Digits ->
                    Go(SetTop(stk, [f EXCEPT
                                      !.number = @ * 10 + DigitVal(b)]),
                       idx + 1)
               [] OTHER ->
                    IF InTable(f.number)
                    THEN finish_number(Pop(stk), idx,
                                       Some(EXP_MATRIX(f.shift, f.number)))
                    ELSE Abort(idx)
    ELSE Fail(idx, idx)

(***************************************************************************)
(* Accessors (json_element.rs).                                            *)
(***************************************************************************)
exists(self) == self.json_type # "JsonEmpty"

\* Slice::as_str of the element's slice
as_str(self) ==
    IF self.json_type = "JsonEmpty" THEN None
    ELSE Some(extract_str(self.slice))

as_i128(self) ==
    IF self.json_type = "JsonNumber" THEN Some(self.number[1].num_i128)
    ELSE None

as_f64(self) ==
    IF self.json_type = "JsonNumber" THEN Some(self.number[1].num_f64)
    ELSE None

\* Option::unwrap panics on None
CanUnwrap(opt) == opt # None

\* index_str with a lookup on a non-object handing back the element itself
index_str_keep_self(self, key) ==
    IF self.json_type = "JsonObject"
    THEN IF key \in DOMAIN self.object[1] THEN self.object[1][key]
         ELSE EMPTY_ELEMENT
    ELSE self

\* impl Index<&str>: map.get(key).unwrap_or(&EMPTY_ELEMENT)
index_str(self, key) ==
    IF self.json_type = "JsonObject"
    THEN IF key \in DOMAIN self.object[1] THEN self.object[1][key]
         ELSE EMPTY_ELEMENT
    ELSE EMPTY_ELEMENT

\* impl Index<usize>: vec.get(index).unwrap_or(&EMPTY_ELEMENT)
index_usize(self, i) ==
    IF self.json_type = "JsonArray"
    THEN IF i < Len(self.array[1]) THEN self.array[1][i + 1]
         ELSE EMPTY_ELEMENT
    ELSE EMPTY_ELEMENT

\* whether the unwrap() inside an accessor call panics
index_str_panics(self) ==
    self.json_type = "JsonObject" /\ ~CanUnwrap(self.object)

index_usize_panics(self) ==
    self.json_type = "JsonArray" /\ ~CanUnwrap(self.array)

(***************************************************************************)
(* The texts parse() is run on: the documents the specification names, every *)
(* text one byte away from one of them (a byte deleted, inserted or        *)
(* replaced), and every short text, bare or inside an open container.      *)
(***************************************************************************)
\* {"a":1,"b":[1,2,3]}
NestedText ==
    <<"{", QUOTE, "a", QUOTE, ":", "1", ",", QUOTE, "b", QUOTE, ":", "[",
      "1", ",", "2", ",", "3", "]", "}">>

\* {"a":1,}
TrailingCommaText ==
    <<"{", QUOTE, "a", QUOTE, ":", "1", ",", "}">>

\* not json
NotJsonText ==
    <<"n", "o", "t", " ", "j", "s", "o", "n">>

\* {"test": "why not?"}
StringText ==
    <<"{", QUOTE, "t", "e", "s", "t", QUOTE, ":", " ", QUOTE, "w", "h",
      "y", " ", "n", "o", "t", "?", QUOTE, "}">>

\* {"x": -4.5e-3}
FloatText ==
    <<"{", QUOTE, "x", QUOTE, ":", " ", "-", "4", ".", "5", "e", "-", "3",
      "}">>

\* {"a":1}
ObjectText ==
    <<"{", QUOTE, "a", QUOTE, ":", "1", "}">>

\* [1,2,3]
ArrayText ==
    <<"[", "1", ",", "2", ",", "3", "]">>

\* {"a":1 "b":2}
NoCommaText ==
    <<"{", QUOTE, "a", QUOTE, ":", "1", " ", QUOTE, "b", QUOTE, ":", "2",
      "}">>

\* [null,true,false]
LiteralsText ==
    <<"[", "n", "u", "l", "l", ",", "t", "r", "u", "e", ",", "f", "a", "l",
      "s", "e", "]">>

Examples ==
    {NestedText, TrailingCommaText, NotJsonText, StringText, FloatText,
     ObjectText, ArrayText, NoCommaText, LiteralsText}

Alphabet ==
    {" ", TAB, LF, CR, "{", "}", "[", "]", QUOTE, ":", ",", BACKSLASH,
     "a", "b", "x", "0", "1", "2", "-", "+", ".", "e", "E",
     "n", "u", "l", "t", "r", "f", "s"}

Deleted(s, i) == SubSeq(s, 1, i - 1) \o SubSeq(s, i + 1, Len(s))

Inserted(s, i, c) == SubSeq(s, 1, i) \o <<c>> \o SubSeq(s, i + 1, Len(s))

Replaced(s, i, c) == [s EXCEPT ![i] = c]

Edits(s) ==
    {Deleted(s, i) : i \in 1..Len(s)}
      \cup {Inserted(s, i, c) : i \in 0..Len(s), c \in Alphabet}
      \cup {Replaced(s, i, c) : i \in 1..Len(s), c \in Alphabet}

ShortAlphabet ==
    {" ", TAB, "{", "}", "[", "]", QUOTE, ":", ",", "a", "1", "-", ".", "e",
     "n"}

MaxLen == 3

Texts(n) == UNION {[1..k -> ShortAlphabet] : k \in 0..n}

Short == {p \o t : p \in {<<>>, <<"[">>, <<"{">>}, t \in Texts(MaxLen)}

\* Number literals, each the one element of an array: the ends of the i128
\* range, digit runs past it, and both tables at and past their last entry.
DigitByte(d) ==
    CASE d = 0 -> "0" [] d = 1 -> "1" [] d = 2 -> "2" [] d = 3 -> "3"
      [] d = 4 -> "4" [] d = 5 -> "5" [] d = 6 -> "6" [] d = 7 -> "7"
      [] d = 8 -> "8" [] d = 9 -> "9"

InArrayText(literal) == <<"[">> \o literal \o <<"]">>

DigitRun(mag) == [i \in 1..Len(mag) |-> DigitByte(mag[i])]

Repeat(b, n) == [i \in 1..n |-> b]

\* [170141183460469231731687303715884105727]
MaxText == InArrayText(DigitRun(I128_MAX_MAG))

\* [170141183460469231731687303715884105728]
PastMaxText == InArrayText(DigitRun(I128_MIN_MAG))

\* [-170141183460469231731687303715884105728]
MinText == InArrayText(<<"-">> \o DigitRun(I128_MIN_MAG))

\* [1701411834604692317316873037158841057270], 40 digits
FortyDigitsText == InArrayText(DigitRun(I128_MAX_MAG) \o <<"0">>)

\* 39 times the digit 9
NinesText == InArrayText(Repeat("9", 39))

\* [1.5]
FractionText == <<"[", "1", ".", "5", "]">>

\* [-12.34e2]
MantissaText == <<"[", "-", "1", "2", ".", "3", "4", "e", "2", "]">>

\* [1.]
NoFractionText == <<"[", "1", ".", "]">>

\* [1e] and [1e-]
NoExponentText == <<"[", "1", "e", "]">>

NoExponentDigitsText == <<"[", "1", "e", "-", "]">>

\* [1 2]
TwoNumbersText == <<"[", "1", " ", "2", "]">>

\* [-007,-0,-]
LeadingZerosText ==
    <<"[", "-", "0", "0", "7", ",", "-", "0", ",", "-", "]">>

\* [1e64] and [1E65]
LastExponentText == <<"[", "1", "e", "6", "4", "]">>

PastExponentText == <<"[", "1", "E", "6", "5", "]">>

\* a fraction of 64 digits, and one of 65
LastFractionText == InArrayText(<<"0", ".">> \o Repeat("1", 64))

PastFractionText == InArrayText(<<"0", ".">> \o Repeat("1", 65))

\* ["a\"b"]
EscapedQuoteText ==
    <<"[", QUOTE, "a", BACKSLASH, QUOTE, "b", QUOTE, "]">>

\* {"a":null,"b":true,"m":false}
ObjectLiteralsText ==
    <<"{", QUOTE, "a", QUOTE, ":", "n", "u", "l", "l", ",", QUOTE, "b",
      QUOTE, ":", "t", "r", "u", "e", ",", QUOTE, "m", QUOTE, ":", "f", "a",
      "l", "s", "e", "}">>

NumberTexts ==
    {MaxText, PastMaxText, MinText, FortyDigitsText, NinesText, FractionText,
     MantissaText, NoFractionText, NoExponentText, NoExponentDigitsText,
     TwoNumbersText, LeadingZerosText, LastExponentText, PastExponentText,
     LastFractionText, PastFractionText}

Sources ==
    Examples \cup UNION {Edits(s) : s \in Examples} \cup Short
      \cup NumberTexts \cup {EscapedQuoteText, ObjectLiteralsText}

\* the keys and indices a caller looks up
Keys == {<<"a">>, <<"b">>, <<"x">>, <<"t", "e", "s", "t">>, <<"m">>}

MaxIndex == 3

NoCall ==
    [op |-> "none", self |-> EMPTY_ELEMENT, key |-> <<>>, i |-> 0,
     panicked |-> FALSE]

(***************************************************************************)
(* The state machine.                                                      *)
(***************************************************************************)
\* Parser::new(source), a caller that holds no element yet, and the build
Init ==
    /\ source \in Sources
    /\ index = 0
    /\ stack = <<ParseFrame>>
    /\ result = Running
    /\ cur = EMPTY_ELEMENT
    /\ call = NoCall
    /\ overflow_checks \in BOOLEAN
    /\ previous = None

Running_fn(fn) == stack # <<>> /\ Top(stack).fn = fn

\* a step of the parser; when parse() returns Ok the caller holds the root
Step(next) ==
    /\ stack' = next.stack
    /\ index' = next.index
    /\ result' = next.result
    /\ cur' = IF next.result.kind = "Ok" THEN next.result.elem ELSE cur
    /\ UNCHANGED <<source, call, overflow_checks, previous>>

parse == Running_fn("parse") /\ Step(parse_loop(stack, index))

parse_object ==
    Running_fn("parse_object") /\ Step(parse_object_loop(stack, index))

parse_array ==
    Running_fn("parse_array") /\ Step(parse_array_loop(stack, index))

parse_string ==
    Running_fn("parse_string") /\ Step(parse_string_loop(stack, index))

parse_number ==
    /\ Running_fn("parse_number")
    /\ Top(stack).pc = "loop"
    /\ Step(parse_number_loop(stack, index))

parse_digits ==
    Running_fn("parse_digits") /\ Step(parse_digits_loop(stack, index))

parse_exponent ==
    Running_fn("parse_exponent") /\ Step(parse_exponent_loop(stack, index))

\* value[key] on the element the caller holds
Index_str ==
    /\ result.kind = "Ok"
    /\ \E key \in Keys :
         /\ cur' = IF index_str_panics(cur) THEN cur ELSE index_str(cur, key)
         /\ call' = [op |-> "index_str", self |-> cur, key |-> key, i |-> 0,
                     panicked |-> index_str_panics(cur)]
    /\ UNCHANGED <<source, index, stack, result, overflow_checks, previous>>

\* value[i] on the element the caller holds
Index_usize ==
    /\ result.kind = "Ok"
    /\ \E i \in 0..MaxIndex :
         /\ cur' = IF index_usize_panics(cur) THEN cur
                   ELSE index_usize(cur, i)
         /\ call' = [op |-> "index_usize", self |-> cur, key |-> <<>>,
                     i |-> i, panicked |-> index_usize_panics(cur)]
    /\ UNCHANGED <<source, index, stack, result, overflow_checks, previous>>

Next ==
    \/ parse
    \/ parse_object
    \/ parse_array
    \/ parse_string
    \/ parse_number
    \/ parse_digits
    \/ parse_exponent
    \/ Index_str
    \/ Index_usize

Spec == Init /\ [][Next]_vars

\* The bytes that follow the root in a second text.
Suffixes ==
    {<<>>, <<"]">>, <<"}">>, <<",">>, <<" ">>, <<"x">>, <<QUOTE>>, <<"1">>,
     <<"]", "]">>, <<",", "1", "]">>, <<" ", "{", "}">>, NotJsonText}

\* After a parse that returned Ok, Parser::new(text).parse() on a text that
\* has the same bytes up to and including the closing bracket of the root
\* (the end of the root's span) and other bytes after it.
parse_again ==
    /\ result.kind = "Ok"
    /\ previous = None
    /\ \E suffix \in Suffixes :
          source' = SubSeq(source, 1, result.elem.slice.end) \o suffix
    /\ previous' = Some(result)
    /\ index' = 0
    /\ stack' = <<ParseFrame>>
    /\ result' = Running
    /\ cur' = EMPTY_ELEMENT
    /\ UNCHANGED <<call, overflow_checks>>

\* two parses in a row, no lookups
NextTwice ==
    \/ parse
    \/ parse_object
    \/ parse_array
    \/ parse_string
    \/ parse_number
    \/ parse_digits
    \/ parse_exponent
    \/ parse_again

SpecTwice == Init /\ [][NextTwice]_vars

(***************************************************************************)
(* The JSON grammar (RFC 8259), as the yardstick of "a valid JSON text":   *)
(* a recogniser that is independent of the Parser above.  Positions are    *)
(* 0-based; a result is [ok, pos, node], pos the position after the value. *)
(* A node records what an accessor path must recover: the bytes between    *)
(* the quotes of a string, the decimal value of an integer.                *)
(***************************************************************************)
Whitespace == {" ", TAB, LF, CR}

\* the byte at position j, "" past the end
At(s, j) == IF j >= 0 /\ j < Len(s) THEN s[j + 1] ELSE ""

RefNode(kind, text, value, members, items) ==
    [kind |-> kind, text |-> text, value |-> value, members |-> members,
     items |-> items]

RefLeaf(kind, text, value) == RefNode(kind, text, value, <<>>, <<>>)

RefFail == [ok |-> FALSE, pos |-> 0, node |-> RefLeaf("none", <<>>, 0)]

RefOk(pos, node) == [ok |-> TRUE, pos |-> pos, node |-> node]

RECURSIVE RefWs(_, _)
RefWs(s, j) == IF At(s, j) \in Whitespace THEN RefWs(s, j + 1) ELSE j

RECURSIVE DigitsEnd(_, _)
DigitsEnd(s, j) == IF At(s, j) \in Digits THEN DigitsEnd(s, j + 1) ELSE j

RECURSIVE StripZeros(_)
StripZeros(d) == IF d # <<>> /\ d[1] = 0 THEN StripZeros(Tail(d)) ELSE d

\* the value of the decimal digits s[from .. to - 1]: the digits without
\* their leading zeros
DecimalValue(s, from, to) ==
    StripZeros([i \in 1..(to - from) |-> DigitVal(At(s, from + i - 1))])

\* the integer of that magnitude and sign
Integer(negative, magnitude) ==
    [neg |-> negative /\ magnitude # <<>>, mag |-> magnitude]

HexDigits == Digits \cup {"a", "b", "c", "d", "e", "f",
                          "A", "B", "C", "D", "E", "F"}

\* the position of the quote that closes a string whose content starts at j,
\* -1 when there is none or the content is not legal
RECURSIVE RefStringEnd(_, _)
RefStringEnd(s, j) ==
    LET c == At(s, j)
    IN  CASE c = "" -> -1
          [] c = QUOTE -> j
          [] c \in {TAB, LF, CR} -> -1
          [] c = BACKSLASH ->
               IF At(s, j + 1) \in {QUOTE, BACKSLASH, "/", "b", "f", "n",
                                    "r", "t"}
               THEN RefStringEnd(s, j + 2)
               ELSE IF /\ At(s, j + 1) = "u"
                       /\ \A d \in 2..5 : At(s, j + d) \in HexDigits
                    THEN RefStringEnd(s, j + 6)
                    ELSE -1
          [] OTHER -> RefStringEnd(s, j + 1)

\* string = quotation-mark *char quotation-mark, j on the opening quote
RefString(s, j) ==
    LET e == RefStringEnd(s, j + 1)
    IN  IF At(s, j) = QUOTE /\ e >= 0
        THEN RefOk(e + 1, RefLeaf("string", SubSeq(s, j + 2, e), 0))
        ELSE RefFail

\* number = [ minus ] int [ frac ] [ exp ]
RefNumber(s, j) ==
    LET neg == At(s, j) = "-"
        i0 == IF neg THEN j + 1 ELSE j
        i1 == DigitsEnd(s, i0)
        intOk == i1 > i0 /\ (At(s, i0) = "0" => i1 = i0 + 1)
        hasFrac == At(s, i1) = "."
        f1 == IF hasFrac THEN DigitsEnd(s, i1 + 1) ELSE i1
        fracOk == hasFrac => f1 > i1 + 1
        hasExp == At(s, f1) \in {"e", "E"}
        e0 == IF At(s, f1 + 1) \in {"+", "-"} THEN f1 + 2 ELSE f1 + 1
        e1 == IF hasExp THEN DigitsEnd(s, e0) ELSE f1
        expOk == hasExp => e1 > e0
        magnitude == DecimalValue(s, i0, i1)
    IN  IF intOk /\ fracOk /\ expOk
        THEN IF hasFrac \/ hasExp
             THEN RefOk(e1, RefLeaf("float", <<>>, 0))
             ELSE RefOk(e1, RefLeaf("integer", <<>>,
                                    Integer(neg, magnitude)))
        ELSE RefFail

RefLiteral(s, j, word, kind) ==
    IF \A d \in 1..Len(word) : At(s, j + d - 1) = word[d]
    THEN RefOk(j + Len(word), RefLeaf(kind, <<>>, 0))
    ELSE RefFail

RECURSIVE RefValue(_, _), RefArrayRest(_, _, _), RefObjectRest(_, _, _)

\* a value that starts at position j
RefValue(s, j) ==
    LET c == At(s, j)
    IN  CASE c = QUOTE -> RefString(s, j)
          [] c = "-" \/ c \in Digits -> RefNumber(s, j)
          [] c = "n" -> RefLiteral(s, j, <<"n", "u", "l", "l">>, "null")
          [] c = "t" -> RefLiteral(s, j, <<"t", "r", "u", "e">>, "true")
          [] c = "f" ->
               RefLiteral(s, j, <<"f", "a", "l", "s", "e">>, "false")
          [] c = "[" ->
               IF At(s, RefWs(s, j + 1)) = "]"
               THEN RefOk(RefWs(s, j + 1) + 1,
                          RefNode("array", <<>>, 0, <<>>, <<>>))
               ELSE RefArrayRest(s, RefWs(s, j + 1), <<>>)
          [] c = "{" ->
               IF At(s, RefWs(s, j + 1)) = "}"
               THEN RefOk(RefWs(s, j + 1) + 1,
                          RefNode("object", <<>>, 0, <<>>, <<>>))
               ELSE RefObjectRest(s, RefWs(s, j + 1), <<>>)
          [] OTHER -> RefFail

\* value *( value-separator value ) end-array, j on the next value
RefArrayRest(s, j, items) ==
    LET v == RefValue(s, j)
        k == RefWs(s, v.pos)
    IN  IF ~v.ok THEN RefFail
        ELSE CASE At(s, k) = "," ->
                    RefArrayRest(s, RefWs(s, k + 1), Append(items, v.node))
               [] At(s, k) = "]" ->
                    RefOk(k + 1, RefNode("array", <<>>, 0, <<>>,
                                         Append(items, v.node)))
               [] OTHER -> RefFail

\* member *( value-separator member ) end-object, j on the next key; a name
\* that occurs twice keeps its last value
RefObjectRest(s, j, members) ==
    LET key == RefString(s, j)
        c == RefWs(s, key.pos)
        v == RefValue(s, RefWs(s, c + 1))
        k == RefWs(s, v.pos)
        all == (key.node.text :> v.node) @@ members
    IN  IF ~key.ok \/ At(s, c) # ":" THEN RefFail
        ELSE IF ~v.ok THEN RefFail
        ELSE CASE At(s, k) = "," -> RefObjectRest(s, RefWs(s, k + 1), all)
               [] At(s, k) = "}" ->
                    RefOk(k + 1, RefNode("object", <<>>, 0, all, <<>>))
               [] OTHER -> RefFail

\* JSON-text = ws value ws, the value an object or an array
RefDocument(s) ==
    LET j == RefWs(s, 0)
        v == RefValue(s, j)
    IN  IF At(s, j) \in {"{", "["} /\ v.ok /\ RefWs(s, v.pos) = Len(s)
        THEN v
        ELSE RefFail

\* every string and integer leaf of the reference node is recovered from elem
\* through the key and index accessors
RECURSIVE Recovers(_, _)
Recovers(node, elem) ==
    CASE node.kind = "string" -> as_str(elem) = Some(node.text)
      [] node.kind = "integer" -> as_i128(elem) = Some(node.value)
      [] node.kind = "object" ->
           \A k \in DOMAIN node.members :
              Recovers(node.members[k], index_str(elem, k))
      [] node.kind = "array" ->
           \A i \in 1..Len(node.items) :
              Recovers(node.items[i], index_usize(elem, i - 1))
      [] OTHER -> exists(elem)

Returned == result.kind # "Running"

(***************************************************************************)
(* Properties                                                              *)
(***************************************************************************)
\* the last byte at or before position j that is not whitespace, "" if none
RECURSIVE PrevNonWs(_, _)
PrevNonWs(s, j) ==
    IF j < 0 THEN ""
    ELSE IF At(s, j) \in Whitespace THEN PrevNonWs(s, j - 1) ELSE At(s, j)

\* the byte the running function is looking at, "" at the end of the input
Byte == At(source, index)

InArray == Running_fn("parse_array")

InObjectKey == Running_fn("parse_object") /\ Top(stack).key = None

InObjectValue == Running_fn("parse_object") /\ Top(stack).key # None

\* the number of leading bytes that parse() steps over before it dispatches
RECURSIVE LeadingSkipped(_, _)
LeadingSkipped(s, j) ==
    IF At(s, j) = " " THEN LeadingSkipped(s, j + 1) ELSE j

\* C1: for every valid JSON text with an object or array at the top level,
\* parse succeeds and every string and integer leaf is recovered, through the
\* key and index accessors, with the bytes between its quotes or its decimal
\* value.
C1_ValidTextsParse ==
    (Returned /\ RefDocument(source).ok) =>
        /\ result.kind = "Ok"
        /\ Recovers(RefDocument(source).node, result.elem)

\* C2: when the first byte after the leading bytes parse skips is neither '{'
\* nor '[', parse never enters a production and fails with the index of that
\* byte.
C2_TopLevelMustBeContainer ==
    LET k == LeadingSkipped(source, 0)
    IN  (k < length /\ At(source, k) \notin {"{", "["}) =>
            \/ stack = <<ParseFrame>> /\ result = Running /\ index <= k
            \/ stack = <<>> /\ result = JsonError(k)

\* `not json` has failed at offset 0
C2_Witness == source = NotJsonText /\ result = JsonError(0)

\* Texts with exactly one defect: a valid document (by the grammar above)
\* to which one ',' has been added, or from which one ',' or ':' has been
\* taken.  The text itself is not valid, so the byte is a separator, not the
\* content of a string.
Positions(s) == 0..(Len(s) - 1)

\* a ',' added after the last entry of a container, before its closing bracket
TrailingComma(s) ==
    /\ ~RefDocument(s).ok
    /\ \E i \in Positions(s) :
          /\ At(s, i) = ","
          /\ At(s, RefWs(s, i + 1)) \in {"}", "]"}
          /\ PrevNonWs(s, i - 1) \notin {"{", "["}
          /\ RefDocument(Deleted(s, i + 1)).ok

\* a ',' added before the first entry of a container
LeadingComma(s) ==
    /\ ~RefDocument(s).ok
    /\ \E i \in Positions(s) :
          /\ At(s, i) = ","
          /\ PrevNonWs(s, i - 1) \in {"{", "["}
          /\ At(s, RefWs(s, i + 1)) \notin {"}", "]"}
          /\ RefDocument(Deleted(s, i + 1)).ok

\* the ',' between two entries of a container taken away
MissingComma(s) ==
    /\ ~RefDocument(s).ok
    /\ \E i \in 0..Len(s) : RefDocument(Inserted(s, i, ",")).ok

\* the ':' between a key and its value taken away
MissingColon(s) ==
    /\ ~RefDocument(s).ok
    /\ \E i \in 0..Len(s) : RefDocument(Inserted(s, i, ":")).ok

\* C3: a text whose only defect is a ',' between the last entry of a
\* container and its closing bracket is rejected; {"a":1,} is one.
C3_TrailingCommaRejected ==
    /\ TrailingComma(TrailingCommaText)
    /\ (Returned /\ TrailingComma(source)) => result.kind = "Err"

\* C4: a text whose only defect is a ',' before the first entry of a
\* container (as in {,"a":1} and [,1]) is rejected.
C4_LeadingCommaRejected ==
    (Returned /\ LeadingComma(source)) => result.kind = "Err"

\* C5: a text whose only defect is a missing ',' between two entries of a
\* container (as in {"a":1 "b":2} and [1 2]) is rejected.
C5_SeparatorRequired ==
    /\ MissingComma(NoCommaText)
    /\ (Returned /\ MissingComma(source)) => result.kind = "Err"

\* C6: a text whose only defect is a missing ':' between a key and its value
\* (as in {"a" 1}) is rejected.
C6_ColonRequired ==
    (Returned /\ MissingColon(source)) => result.kind = "Err"

\* C7: (a) when the input ends inside an open container, parse fails with
\* the input length as offset; (b) a container closed by the other kind of
\* bracket fails at that bracket; (c) parse does not succeed when a closing
\* bracket follows the root.
C7_UnbalancedRejected ==
    [][/\ ( /\ \E d \in 1..Len(stack) :
                  stack[d].fn \in {"parse_object", "parse_array"}
            /\ index >= length )
          => result' = JsonError(length)
       /\ ( \/ InArray /\ Byte = "}"
            \/ Running_fn("parse_object") /\ Byte = "]" )
          => result' = JsonError(index)
       /\ (result.kind = "Running" /\ result'.kind = "Ok")
          => At(source, RefWs(source, index')) \notin {"]", "}"}]_vars

\* C8: in a valid document, where parse, parse_object and parse_array skip
\* a space they skip a tab, a carriage return and a line feed too: the
\* cursor moves one byte on and nothing else changes.
C8_WhitespaceSkipped ==
    [][( /\ RefDocument(source).ok
         /\ \/ Running_fn("parse")
            \/ Running_fn("parse_object")
            \/ Running_fn("parse_array")
         /\ Byte \in {TAB, CR, LF} )
       => /\ index' = index + 1
          /\ stack' = stack
          /\ result' = result]_vars

\* C9: no lookup panics; value[key] on a non-object or without that key, and
\* value[i] on a non-array or out of bounds, give the Absent element; a
\* lookup on Absent gives Absent; as_i128 and as_f64 of Absent are None.
C9_LookupNeverFails ==
    /\ ~call.panicked
    /\ call.op = "index_str" =>
          ( ( \/ call.self.json_type # "JsonObject"
              \/ call.key \notin DOMAIN call.self.object[1] )
            => cur = EMPTY_ELEMENT /\ ~exists(cur) )
    /\ call.op = "index_usize" =>
          ( ( \/ call.self.json_type # "JsonArray"
              \/ call.i >= Len(call.self.array[1]) )
            => cur = EMPTY_ELEMENT /\ ~exists(cur) )
    /\ (call.op # "none" /\ ~exists(call.self)) => ~exists(cur)
    /\ ~exists(cur) => as_i128(cur) = None /\ as_f64(cur) = None

\* a lookup made on Absent, after a lookup of a key the root does not have
C9_Witness ==
    /\ source = NestedText
    /\ call.op = "index_usize"
    /\ call.self = EMPTY_ELEMENT
    /\ cur = EMPTY_ELEMENT

\* C10: as_str gives a value only for a String, as_i128 only for an integer
\* Number, as_f64 only for a Number; Absent gives None for all three.
C10_TypedExtraction ==
    result.kind = "Ok" =>
        /\ as_str(cur) # None => cur.json_type = "JsonString"
        /\ as_i128(cur) # None =>
              /\ cur.json_type = "JsonNumber"
              /\ cur.number[1].detected_type = "Integer"
        /\ as_f64(cur) # None => cur.json_type = "JsonNumber"
        /\ ~exists(cur) =>
              as_str(cur) = None /\ as_i128(cur) = None /\ as_f64(cur) = None

\* every element of the tree under elem
RECURSIVE Nodes(_)
Nodes(elem) ==
    {elem}
      \cup ( IF elem.array # None
             THEN UNION {Nodes(elem.array[1][i]) :
                            i \in 1..Len(elem.array[1])}
             ELSE {} )
      \cup ( IF elem.object # None
             THEN UNION {Nodes(elem.object[1][k]) :
                            k \in DOMAIN elem.object[1]}
             ELSE {} )

\* the elements a frame of the stack holds
Held(frame) ==
    CASE frame.fn = "parse_array" ->
            {frame.array[i] : i \in 1..Len(frame.array)}
      [] frame.fn = "parse_object" ->
            {frame.object[k] : k \in DOMAIN frame.object}
      [] OTHER -> {}

\* every element the parser has built so far
Built ==
    UNION {Nodes(e) :
              e \in (IF result.kind = "Ok" THEN {result.elem} ELSE {})
                      \cup UNION {Held(stack[d]) : d \in 1..Len(stack)}}

BuiltNumbers == {n \in Built : n.json_type = "JsonNumber"}

\* the bytes of the literal an element was built from
Literal(n) == extract_str(n.slice)

HasByte(text, bytes) == \E i \in 1..Len(text) : text[i] \in bytes

\* the decimal value of an integer literal, sign applied
LiteralValue(lit) ==
    LET negative == lit[1] = "-"
    IN  Integer(negative,
                DecimalValue(lit, IF negative THEN 1 ELSE 0, Len(lit)))

\* C11: a number the parser has built is an Integer exactly when its literal
\* has no '.', 'e' or 'E', and a Float otherwise; the stored integer of an
\* Integer literal whose value is in the i128 range is the decimal value of
\* the literal, negated by a leading '-'.
C11_NumberClassified ==
    \A n \in BuiltNumbers :
        LET lit == Literal(n)
            isInteger == ~HasByte(lit, {".", "e", "E"})
        IN  /\ n.number[1].detected_type = "Integer" <=> isInteger
            /\ n.number[1].detected_type = "Float" <=> ~isInteger
            /\ (isInteger /\ InI128(LiteralValue(lit)))
                  => n.number[1].num_i128 = LiteralValue(lit)

\* [-007,-0,-] has been parsed: -7, 0 and 0, all Integer
C11_Witness ==
    /\ source = LeadingZerosText
    /\ result.kind = "Ok"
    /\ as_i128(index_usize(result.elem, 0)) = Some(Integer(TRUE, <<7>>))
    /\ \A n \in BuiltNumbers : n.number[1].detected_type = "Integer"

\* the digits of a literal before its exponent, '-' and '.' left out
MantissaDigits(lit) ==
    LET stop == IF HasByte(lit, {"e", "E"})
                THEN CHOOSE i \in 1..Len(lit) :
                        /\ lit[i] \in {"e", "E"}
                        /\ \A j \in 1..(i - 1) : lit[j] \notin {"e", "E"}
                ELSE Len(lit) + 1
        digits == SelectSeq(SubSeq(lit, 1, stop - 1), LAMBDA b : b \in Digits)
    IN  [i \in 1..Len(digits) |-> DigitVal(digits[i])]

\* the mantissa of a literal: the integer its integer-part and fractional-part
\* digits form together, sign applied
Mantissa(lit) == Integer(lit[1] = "-", StripZeros(MantissaDigits(lit)))

\* C12: the stored integer of a number the parser has built is the integer
\* formed by the integer-part digits followed by the fractional-part digits
\* of its literal, sign applied (15 for 1.5, -1234 for -12.34e2), when that
\* integer is in the i128 range.
C12_MantissaConcatenated ==
    \A n \in BuiltNumbers :
        InI128(Mantissa(Literal(n)))
            => n.number[1].num_i128 = Mantissa(Literal(n))

\* a '.' of the literal that no digit follows
EmptyFraction(lit) ==
    \E i \in 1..Len(lit) :
        lit[i] = "." /\ (i = Len(lit) \/ lit[i + 1] \notin Digits)

\* an 'e' or 'E' of the literal that no digit follows, a '-' in between or not
EmptyExponent(lit) ==
    \E i \in 1..Len(lit) :
        /\ lit[i] \in {"e", "E"}
        /\ LET j == IF i < Len(lit) /\ lit[i + 1] = "-" THEN i + 2 ELSE i + 1
           IN  j > Len(lit) \/ lit[j] \notin Digits

\* the literal starts with a digit, after its '-' if it has one
HasIntegerPart(lit) ==
    \/ lit[1] \in Digits
    \/ lit[1] = "-" /\ Len(lit) > 1 /\ lit[2] \in Digits

\* C13: a literal with a fraction of zero digits (1.) or an exponent of zero
\* digits (1e, 1e-) is malformed: the number production does not return a
\* value for it, so no number the parser has built has such a literal.
C13_EmptyFractionOrExponentRejected ==
    \A n \in BuiltNumbers :
        HasIntegerPart(Literal(n))
            => ~EmptyFraction(Literal(n)) /\ ~EmptyExponent(Literal(n))

BuiltStrings == {n \in Built : n.json_type = "JsonString"}

\* the keys parse_object took from the string production and holds
PendingKeys ==
    {stack[d].key[1] :
        d \in {e \in 1..Len(stack) :
                  stack[e].fn = "parse_object" /\ stack[e].key # None}}

\* C14: the string production ends only at a quote that no backslash
\* precedes: the last byte of the span of a string it has returned, as a
\* value or as a key, is not a backslash, and ["a\"b"] parses.
C14_EscapedQuoteKept ==
    /\ \A n \in BuiltStrings :
          n.slice.end > n.slice.beginning
              => At(source, n.slice.end - 1) # BACKSLASH
    /\ \A key \in PendingKeys :
          key # <<>> => key[Len(key)] # BACKSLASH
    /\ (source = EscapedQuoteText /\ Returned) => result.kind = "Ok"

\* the frame of the function that called the running one
Caller == stack[Len(stack) - 1]

\* the running production hands elem to its caller in this step and the
\* caller goes on
DeliveredToArray(elem) ==
    /\ Caller.fn = "parse_array"
    /\ Len(stack') = Len(stack) - 1
    /\ Top(stack').array = Append(Caller.array, elem)

DeliveredAsKey(elem) ==
    /\ Caller.fn = "parse_object" /\ Caller.key = None
    /\ Len(stack') = Len(stack) - 1
    /\ Top(stack').key = Some(extract_str(elem.slice))

DeliveredToObject(elem) ==
    /\ Caller.fn = "parse_object" /\ Caller.key # None
    /\ Len(stack') = Len(stack) - 1
    /\ Top(stack').key = None
    /\ Caller.key[1] \in DOMAIN Top(stack').object
    /\ Top(stack').object[Caller.key[1]] = elem

Delivered(elem) ==
    DeliveredToArray(elem) \/ DeliveredAsKey(elem) \/ DeliveredToObject(elem)

\* C15: the string production, started on an opening quote, returns at the
\* next quote the span from the byte after the opening quote to the closing
\* quote (start = end for the empty string), whoever called it; when the
\* input ends first, parse fails with the input length as offset.
C15_StringSpan ==
    [][Running_fn("parse_string") =>
          LET mark == Top(stack).mark
          IN  /\ At(source, mark - 1) = QUOTE
              /\ \A j \in mark..(index - 1) : At(source, j) # QUOTE
              /\ mark <= index
              /\ Byte = QUOTE => Delivered(from_string(Slice(mark, index)))
              /\ index >= length
                    => result' = JsonError(length) /\ stack' = <<>>]_vars

\* {"test": "why not?"} has been parsed: the value spans why not?
C15_Witness ==
    /\ source = StringText
    /\ result.kind = "Ok"
    /\ index_str(result.elem, <<"t", "e", "s", "t">>)
          = from_string(Slice(10, 18))
    /\ as_str(index_str(result.elem, <<"t", "e", "s", "t">>))
          = Some(<<"w", "h", "y", " ", "n", "o", "t", "?">>)

\* C16: parse ends in success with a root value or in a failure whose offset
\* is between 0 and the input length, and in nothing else: no read of
\* EXP_MATRIX outside 0..64 and no other panic.
C16_TwoOutcomes ==
    /\ result.kind \in {"Running", "Ok", "Err"}
    /\ result.kind = "Ok" => exists(result.elem)
    /\ result.kind = "Err" => 0 <= result.index /\ result.index <= length
    /\ \A d \in 1..Len(stack) :
          (stack[d].fn = "parse_number" /\ stack[d].dot_multiplier # None)
              => InTable(stack[d].dot_multiplier[1])

\* C17: parse_digits never lets the accumulation overflow undetected: its
\* num stays a non-negative value of the i128 range, and the scan of a digit
\* run does not end in a panic on one of its digits.
C17_OverflowSwallowed ==
    /\ \A d \in 1..Len(stack) :
          stack[d].fn = "parse_digits"
              => ~stack[d].num.neg /\ InI128(stack[d].num)
    /\ result.kind = "Panic" => At(source, result.index) \notin Digits

\* the string production returns in this step
StringReturns == Running_fn("parse_string") /\ Byte = QUOTE

\* a container production returns in this step: its span ends after the
\* closing bracket
ContainerReturns ==
    \/ Running_fn("parse_array") /\ Byte = "]"
    \/ InObjectKey /\ Byte = "}"

\* the number production returns in this step: its span ends at the byte
\* that ended the literal
NumberReturns ==
    /\ \/ /\ Running_fn("parse_number") /\ Top(stack).pc = "loop"
          /\ index < length /\ Byte \notin {".", "e", "E"}
       \/ /\ Running_fn("parse_exponent")
          /\ index < length /\ Byte \notin Digits \cup {"-"}
    /\ result'.kind \notin {"Panic"}

\* a literal production is called and returns in this step
LiteralReturns(first, word) ==
    /\ InArray \/ InObjectValue
    /\ Byte = first
    /\ \A d \in 1..Len(word) : At(source, index + d - 1) = word[d]

\* C18: when a production returns to its caller the cursor is the end of the
\* returned span, and for a string the byte after the closing quote, at
\* every call site, the object key included.
C18_CursorAfterSpan ==
    [][/\ StringReturns => index' = Slice(Top(stack).mark, index).end + 1
       /\ ContainerReturns => index' = index + 1
       /\ NumberReturns => index' = index
       /\ LiteralReturns("n", <<"n", "u", "l", "l">>) => index' = index + 4
       /\ LiteralReturns("t", <<"t", "r", "u", "e">>) => index' = index + 4
       /\ LiteralReturns("f", <<"f", "a", "l", "s", "e">>)
             => index' = index + 5]_vars

\* a production without a frame of its own hands elem to the running
\* function, which goes on
TakenByArray(elem) ==
    /\ InArray
    /\ Len(stack') = Len(stack)
    /\ Top(stack').array = Append(Top(stack).array, elem)

TakenByObject(elem) ==
    /\ InObjectValue
    /\ Len(stack') = Len(stack)
    /\ Top(stack').key = None
    /\ Top(stack).key[1] \in DOMAIN Top(stack').object
    /\ Top(stack').object[Top(stack).key[1]] = elem

Taken(elem) == TakenByArray(elem) \/ TakenByObject(elem)

\* a value starts with the byte `first` where a value is dispatched
LiteralStarts(first) == (InArray \/ InObjectValue) /\ Byte = first

\* what a literal production does: with the tail there, elem is handed over
\* and the cursor is after the literal; otherwise parse fails with the offset
\* of the byte after the leading letter and nothing is handed over
LiteralOutcome(word, elem) ==
    IF \A d \in 1..Len(word) : At(source, index + d - 1) = word[d]
    THEN Taken(elem) /\ index' = index + Len(word) /\ result' = Running
    ELSE result' = JsonError(index + 1) /\ stack' = <<>>

\* C19: a value that starts with 'n', 't' or 'f' is Null, Boolean(true) or
\* Boolean(false) exactly when ull, rue or alse follows; it then takes 4, 4
\* or 5 bytes and its span is the literal.  On a mismatch, or when the input
\* is too short for the tail, parse fails with the offset of the byte after
\* the leading letter and no value is produced.
C19_Literals ==
    [][/\ LiteralStarts("n")
             => LiteralOutcome(<<"n", "u", "l", "l">>,
                               from_null(Slice(index, index + 4)))
       /\ LiteralStarts("t")
             => LiteralOutcome(<<"t", "r", "u", "e">>,
                               from_boolean(TRUE, Slice(index, index + 4)))
       /\ LiteralStarts("f")
             => LiteralOutcome(<<"f", "a", "l", "s", "e">>,
                               from_boolean(FALSE, Slice(index, index + 5)))
      ]_vars

\* [null,true,false] has been parsed
C19_Witness ==
    /\ source = LiteralsText
    /\ result.kind = "Ok"
    /\ result.elem.array[1]
          = <<from_null(Slice(1, 5)), from_boolean(TRUE, Slice(6, 10)),
              from_boolean(FALSE, Slice(11, 16))>>

\* the running function goes round its loop once more: after the step it is
\* still running, in the same frame
LoopContinues ==
    /\ stack # <<>>
    /\ Len(stack') = Len(stack)
    /\ Top(stack').fn = Top(stack).fn

\* a production called by the running function returns to it in this step
ProductionReturns ==
    /\ Len(stack) > 1
    /\ Len(stack') < Len(stack)
    /\ result'.kind \in {"Running", "Ok"}

\* the cursor when the production that returns in this step was called
CalledAt ==
    CASE Top(stack).fn \in {"parse_array", "parse_object"} -> Top(stack).mark
      [] Top(stack).fn = "parse_string" -> Top(stack).mark - 1
      [] Top(stack).fn = "parse_number" -> Top(stack).mark
      [] Top(stack).fn = "parse_exponent" -> Caller.mark
      [] OTHER -> index

\* C20: the cursor never decreases, every turn of a scanning loop and every
\* production that returns to its caller moves it forward, and it never
\* exceeds the input length, so parse ends within as many steps as the input
\* has bytes.
C20_CursorBounded ==
    [][/\ index' >= index
       /\ LoopContinues => index' > index
       /\ (ProductionReturns /\ Top(stack).fn # "parse_digits")
             => index' > CalledAt
       /\ index' <= length]_vars

\* Slice: 0 <= beginning <= end <= length
SpanInBounds(slice) ==
    /\ 0 <= slice.beginning
    /\ slice.beginning <= slice.end
    /\ slice.end <= length

\* C21: when parse succeeds, the span of every node of the tree it returns
\* satisfies 0 <= start <= end <= input length.
C21_SpansInBounds ==
    result.kind = "Ok" => \A n \in Nodes(result.elem) : SpanInBounds(n.slice)

\* {"a":1,"b":[1,2,3]} has been parsed: the root spans the whole input, and
\* the inner array and its last number lie inside it
C21_Witness ==
    /\ source = NestedText
    /\ result.kind = "Ok"
    /\ result.elem.slice = Slice(0, length)
    /\ index_str(result.elem, <<"b">>).slice = Slice(11, 18)
    /\ index_usize(index_str(result.elem, <<"b">>), 2).slice = Slice(16, 17)

\* C22: parse returns when the closing bracket of the root is consumed and
\* does not look at what follows: a text with the same bytes up to and
\* including that bracket gives the same outcome and the same tree, whatever
\* comes after.
C22_TrailingBytesIgnored ==
    (previous # None /\ Returned) => result = previous[1]

\* [1,2,3] was parsed, then [1,2,3] followed by `not json`, with the same
\* result
C22_Witness ==
    /\ previous # None
    /\ source = ArrayText \o NotJsonText
    /\ result.kind = "Ok"
    /\ result = previous[1]
    /\ index = Len(ArrayText)

====
